---------------------------- MODULE Spec2Model ----------------------------
(***************************************************************************)
(* Model of setup.py of rindeal/travis-ci-utils: the script binds          *)
(* distutils' setup and sys, puts "." in front of sys.path, imports the    *)
(* metadata object, evaluates the nine keyword arguments in source order   *)
(* and calls setup() once.  An exception nobody catches ends the           *)
(* interpreter with exit code 1.                                           *)
(*                                                                         *)
(* The environment (what the file system holds, the interpreter's initial  *)
(* sys.path, what the packaging tool answers) is chosen in Init or drawn   *)
(* with \E where it is consumed.                                           *)
(***************************************************************************)
EXTENDS Integers, Sequences, FiniteSets, TLC

VARIABLES
    pc,         \* position of the interpreter in setup.py
    sys_path,   \* sys.path, a sequence of directories (index 1 is Python's 0)
    fs,         \* environment: directory -> metadata object its copy of
                \* rindeal.travis_ci._pkg_metadata defines, or NoModule
    metadata,   \* the name `metadata` of the script: Unbound or an object
    origin,     \* directory the metadata module was loaded from
    reads,      \* attribute names loaded from `metadata`, in order
    args,       \* keyword arguments evaluated so far (keyword -> value)
    calls,      \* keyword-argument records setup() was invoked with
    tool,       \* what the packaging tool answered: "pending", "ok", "error"
    exc,        \* the uncaught exception that ended the run, or "none"
    exit_code   \* interpreter exit status, -1 while the script runs

vars == <<pc, sys_path, fs, metadata, origin, reads, args, calls, tool, exc,
          exit_code>>

----------------------------------------------------------------------------
(* Bounds and input sets *)

\* longest initial sys.path the interpreter starts with
MaxPathLen == 2

\* directories that may be on sys.path and may hold a copy of the package
Dirs == {".", "/site"}

\* the seven attributes the spec says the metadata object exposes
SevenAttrs == {"name", "version", "short_description", "url", "author",
               "author_email", "licence_name"}

NoModule == [absent |-> TRUE]
Unbound == [unbound |-> TRUE]

\* two sample metadata objects with pairwise distinct field values
LocalMeta ==
    [name |-> "travis-ci-utils", version |-> "0.2.0",
     short_description |-> "Helpers and Utilities for Travis CI",
     url |-> "https://github.com/rindeal/travis-ci-utils",
     author |-> "Jan Chren (rindeal)", author_email |-> "dev.rindeal@gmail.com",
     licence_name |-> "GPL-3.0"]

InstalledMeta ==
    [name |-> "rindeal-travis-ci", version |-> "0.1.0",
     short_description |-> "Travis CI helpers",
     url |-> "https://example.org/travis-ci-utils",
     author |-> "rindeal", author_email |-> "rindeal@example.org",
     licence_name |-> "GPL-3.0-only"]

Without(m, a) == [x \in (DOMAIN m) \ {a} |-> m[x]]
WithEmpty(m, a) == [x \in DOMAIN m |-> IF x = a THEN "" ELSE m[x]]

\* metadata objects as the spec describes them: all seven attributes exposed
RepoMetadataObjects ==
    {LocalMeta, InstalledMeta} \cup {WithEmpty(LocalMeta, a) : a \in SevenAttrs}

\* any metadata object a copy of the module may define
MetadataObjects ==
    RepoMetadataObjects \cup {Without(LocalMeta, a) : a \in SevenAttrs}

RECURSIVE SeqsUpTo(_, _)
SeqsUpTo(S, n) ==
    IF n = 0 THEN {<<>>}
    ELSE LET shorter == SeqsUpTo(S, n - 1)
         IN  shorter \cup {Append(s, d) : s \in shorter, d \in S}

InitialPaths == SeqsUpTo(Dirs, MaxPathLen)

----------------------------------------------------------------------------
(* The script's constants *)

\* setup.py:32-40, the keywords in evaluation order
KeywordOrder ==
    <<"name", "version", "description", "url", "author", "author_email",
      "license">>

\* variant: author and author_email exchanged
KeywordAttrSwapped(kw) ==
    CASE kw = "name" -> "name"
      [] kw = "version" -> "version"
      [] kw = "description" -> "short_description"
      [] kw = "url" -> "url"
      [] kw = "author" -> "author_email"
      [] kw = "author_email" -> "author"
      [] kw = "license" -> "licence_name"

\* variant: the license read under the other spelling of the attribute
KeywordAttrRespelled(kw) ==
    CASE kw = "name" -> "name"
      [] kw = "version" -> "version"
      [] kw = "description" -> "short_description"
      [] kw = "url" -> "url"
      [] kw = "author" -> "author"
      [] kw = "author_email" -> "author_email"
      [] kw = "license" -> "license_name"

KeywordAttr(kw) ==
    CASE kw = "name" -> "name"
      [] kw = "version" -> "version"
      [] kw = "description" -> "short_description"
      [] kw = "url" -> "url"
      [] kw = "author" -> "author"
      [] kw = "author_email" -> "author_email"
      [] kw = "license" -> "licence_name"

\* variant: the parent package declared as well
PackagesArgWithParent == <<"rindeal", "rindeal.travis_ci">>

\* setup.py:43
PackagesArg == <<"rindeal.travis_ci">>

\* variant: no script declared
ScriptsArgNone == <<>>

\* setup.py:45
ScriptsArg == <<"bin/travis-ci-utils">>

\* variant: list.append(x)
PathAppend(path, d) == path \o <<d>>

\* setup.py:26, list.insert(0, x)
PathInsertFront(path, d) == <<d>> \o path

\* import machinery: the first sys.path entry holding a copy, 0 when none
RECURSIVE FindModule(_, _, _)
FindModule(path, files, i) ==
    IF i > Len(path) THEN 0
    ELSE IF files[path[i]] # NoModule THEN i
    ELSE FindModule(path, files, i + 1)

----------------------------------------------------------------------------
(* Initial states *)

InitScript ==
    /\ pc = "imports"
    /\ sys_path \in InitialPaths
    /\ metadata = Unbound
    /\ origin = "none"
    /\ reads = <<>>
    /\ args = <<>>
    /\ calls = <<>>
    /\ tool = "pending"
    /\ exc = "none"
    /\ exit_code = -1

Init ==
    /\ InitScript
    /\ fs \in [Dirs -> MetadataObjects \cup {NoModule}]

\* run from the repository root, whose copy is as the spec describes it
InitRepo ==
    /\ InitScript
    /\ fs \in [Dirs -> MetadataObjects \cup {NoModule}]
    /\ fs["."] \in RepoMetadataObjects

----------------------------------------------------------------------------
(* Actions *)

\* setup.py:21-22
ImportStdlib ==
    /\ pc = "imports"
    /\ pc' = "path_insert"
    /\ UNCHANGED <<sys_path, fs, metadata, origin, reads, args, calls, tool,
                   exc, exit_code>>

\* setup.py:26
PathInsert ==
    /\ pc = "path_insert"
    /\ sys_path' = PathInsertFront(sys_path, ".")
    /\ pc' = "import_metadata"
    /\ UNCHANGED <<fs, metadata, origin, reads, args, calls, tool, exc,
                   exit_code>>

\* variant: a failed import is swallowed and the script ends normally
ImportMetadataSwallowed ==
    /\ pc = "import_metadata"
    /\ LET i == FindModule(sys_path, fs, 1)
       IN  IF i # 0
           THEN /\ metadata' = fs[sys_path[i]]
                /\ origin' = sys_path[i]
                /\ pc' = "kwargs"
                /\ UNCHANGED exit_code
           ELSE /\ pc' = "done"
                /\ exit_code' = 0
                /\ UNCHANGED <<metadata, origin>>
    /\ UNCHANGED <<sys_path, fs, reads, args, calls, tool, exc>>

\* setup.py:27
ImportMetadata ==
    /\ pc = "import_metadata"
    /\ LET i == FindModule(sys_path, fs, 1)
       IN  IF i # 0
           THEN /\ metadata' = fs[sys_path[i]]
                /\ origin' = sys_path[i]
                /\ pc' = "kwargs"
                /\ UNCHANGED <<exc, exit_code>>
           ELSE /\ pc' = "failed"
                /\ exc' = "ImportError"
                /\ exit_code' = 1
                /\ UNCHANGED <<metadata, origin>>
    /\ UNCHANGED <<sys_path, fs, reads, args, calls, tool>>

\* variant: getattr(metadata, a, ""), a missing attribute does not raise
LoadAttrDefaulted ==
    /\ pc = "kwargs"
    /\ Len(reads) < Len(KeywordOrder)
    /\ LET kw == KeywordOrder[Len(reads) + 1]
           a == KeywordAttr(kw)
       IN  /\ reads' = Append(reads, a)
           /\ args' = args @@
                  (kw :> IF a \in DOMAIN metadata THEN metadata[a] ELSE "")
           /\ pc' = IF Len(reads') = Len(KeywordOrder)
                    THEN "packages" ELSE "kwargs"
    /\ UNCHANGED <<sys_path, fs, metadata, origin, calls, tool, exc, exit_code>>

\* setup.py:32-40, one keyword argument per step
LoadAttr ==
    /\ pc = "kwargs"
    /\ Len(reads) < Len(KeywordOrder)
    /\ LET kw == KeywordOrder[Len(reads) + 1]
           a == KeywordAttr(kw)
       IN  /\ reads' = Append(reads, a)
           /\ IF a \in DOMAIN metadata
              THEN /\ args' = args @@ (kw :> metadata[a])
                   /\ pc' = IF Len(reads') = Len(KeywordOrder)
                            THEN "packages" ELSE "kwargs"
                   /\ UNCHANGED <<exc, exit_code>>
              ELSE /\ pc' = "failed"
                   /\ exc' = "AttributeError"
                   /\ exit_code' = 1
                   /\ UNCHANGED args
    /\ UNCHANGED <<sys_path, fs, metadata, origin, calls, tool>>

\* setup.py:43
BuildPackages ==
    /\ pc = "packages"
    /\ args' = args @@ ("packages" :> PackagesArg)
    /\ pc' = "scripts"
    /\ UNCHANGED <<sys_path, fs, metadata, origin, reads, calls, tool, exc,
                   exit_code>>

\* setup.py:45
BuildScripts ==
    /\ pc = "scripts"
    /\ args' = args @@ ("scripts" :> ScriptsArg)
    /\ pc' = "call"
    /\ UNCHANGED <<sys_path, fs, metadata, origin, reads, calls, tool, exc,
                   exit_code>>

\* variant: setup() invoked a second time with the same arguments
CallSetupTwice ==
    /\ pc = "call"
    /\ calls' = Append(Append(calls, args), args)
    /\ \E answer \in {"ok", "error"} :
          /\ tool' = answer
          /\ IF answer = "ok"
             THEN /\ pc' = "done"
                  /\ exit_code' = 0
                  /\ UNCHANGED exc
             ELSE /\ pc' = "failed"
                  /\ exc' = "SystemExit"
                  /\ exit_code' = 1
    /\ UNCHANGED <<sys_path, fs, metadata, origin, reads, args>>

\* variant: sys.exit(setup(...)), the returned object becomes the exit status
CallSetupExitsWithResult ==
    /\ pc = "call"
    /\ calls' = Append(calls, args)
    /\ \E answer \in {"ok", "error"} :
          /\ tool' = answer
          /\ pc' = "failed"
          /\ exc' = "SystemExit"
          /\ exit_code' = 1
    /\ UNCHANGED <<sys_path, fs, metadata, origin, reads, args>>

\* setup.py:30-46: the call; the tool's answer is the environment's
CallSetup ==
    /\ pc = "call"
    /\ calls' = Append(calls, args)
    /\ \E answer \in {"ok", "error"} :
          /\ tool' = answer
          /\ IF answer = "ok"
             THEN /\ pc' = "done"
                  /\ exit_code' = 0
                  /\ UNCHANGED exc
             ELSE /\ pc' = "failed"
                  /\ exc' = "SystemExit"
                  /\ exit_code' = 1
    /\ UNCHANGED <<sys_path, fs, metadata, origin, reads, args>>

Next ==
    \/ ImportStdlib
    \/ PathInsert
    \/ ImportMetadata
    \/ LoadAttr
    \/ BuildPackages
    \/ BuildScripts
    \/ CallSetup

Spec == Init /\ [][Next]_vars

\* the interpreter runs the script to its end
FairSpec == Init /\ [][Next]_vars /\ WF_vars(Next)

\* the script run from the repository root
SpecRepo == InitRepo /\ [][Next]_vars

----------------------------------------------------------------------------
(* Vocabulary of the properties *)

Terminal == pc \in {"done", "failed"}

MetadataKeywords ==
    {"name", "version", "description", "url", "author", "author_email",
     "license"}

AllFieldsPresent == metadata # Unbound /\ SevenAttrs \subseteq DOMAIN metadata

SomeFieldEmpty ==
    /\ metadata # Unbound
    /\ \E a \in SevenAttrs \cap DOMAIN metadata : metadata[a] = ""

ValidMetadata == AllFieldsPresent /\ ~SomeFieldEmpty

ReadSet == {reads[i] : i \in 1..Len(reads)}

----------------------------------------------------------------------------
\* C1: every invocation of setup() receives exactly the seven
\* metadata-derived keywords (beside packages and scripts), and each one
\* carries the value of its stated attribute: name = metadata.name,
\* version = metadata.version, description = metadata.short_description,
\* url = metadata.url, author = metadata.author,
\* author_email = metadata.author_email, license = metadata.licence_name.
C1_ArgsForwarded ==
    \A i \in 1..Len(calls) :
        LET c == calls[i]
        IN  /\ (DOMAIN c) \ {"packages", "scripts"} = MetadataKeywords
            /\ c["name"] = metadata["name"]
            /\ c["version"] = metadata["version"]
            /\ c["description"] = metadata["short_description"]
            /\ c["url"] = metadata["url"]
            /\ c["author"] = metadata["author"]
            /\ c["author_email"] = metadata["author_email"]
            /\ c["license"] = metadata["licence_name"]

C1_Witness ==
    /\ Len(calls) = 1
    /\ metadata = LocalMeta
    /\ calls[1]["description"] = "Helpers and Utilities for Travis CI"

\* C2: every invocation of setup() gets a packages list of exactly one
\* entry, "rindeal.travis_ci", whatever the metadata values are.
C2_OnePackage ==
    \A i \in 1..Len(calls) :
        /\ "packages" \in DOMAIN calls[i]
        /\ Len(calls[i]["packages"]) = 1
        /\ calls[i]["packages"][1] = "rindeal.travis_ci"

C2_Witness ==
    /\ Len(calls) = 1
    /\ metadata = InstalledMeta
    /\ calls[1]["packages"] = <<"rindeal.travis_ci">>

\* C3: every invocation of setup() gets a scripts list of exactly one
\* entry, "bin/travis-ci-utils", whatever the metadata values are.
C3_OneScript ==
    \A i \in 1..Len(calls) :
        /\ "scripts" \in DOMAIN calls[i]
        /\ Len(calls[i]["scripts"]) = 1
        /\ calls[i]["scripts"][1] = "bin/travis-ci-utils"

C3_Witness ==
    /\ Len(calls) = 1
    /\ SomeFieldEmpty
    /\ calls[1]["scripts"] = <<"bin/travis-ci-utils">>

\* C4 as stated: a run whose metadata module could not be imported, or
\* whose metadata misses a referenced field, or holds an empty field, ends
\* in failure with a non-zero exit code and never in success.
C4_InvalidMetadataFails ==
    (Terminal /\ (~AllFieldsPresent \/ SomeFieldEmpty))
        => (pc = "failed" /\ exit_code # 0)

\* C4 amended: a run whose metadata module could not be imported or whose
\* metadata misses a referenced field ends in failure with exit code 1 and
\* never in success; success implies an imported object with all seven
\* fields.  (An empty field is not looked at by the script.)
C4_MissingMetadataFails ==
    /\ (Terminal /\ ~AllFieldsPresent) => (pc = "failed" /\ exit_code # 0)
    /\ (exc \in {"ImportError", "AttributeError"})
           => (pc = "failed" /\ exit_code = 1 /\ ~AllFieldsPresent)
    /\ (pc = "done") => (exit_code = 0 /\ AllFieldsPresent)
    /\ (\A d \in Dirs : fs[d] = NoModule) => pc # "done"

C4_Witness ==
    /\ pc = "failed"
    /\ exc = "ImportError"
    /\ exit_code = 1
    /\ \A d \in Dirs : fs[d] = NoModule

C6_ReadsExactlySeven ==
    /\ exc # "AttributeError"
    /\ ReadSet \subseteq SevenAttrs
    /\ (pc \in {"packages", "scripts", "call", "done"} \/ tool # "pending")
           => (ReadSet = SevenAttrs /\ Len(reads) = 7)

C6_Witness ==
    /\ pc = "done"
    /\ Len(reads) = 7
    /\ metadata["url"] = ""

\* C7: from the import statement on, "." is the first entry of sys.path,
\* and whenever the current directory holds a copy of the metadata module
\* that copy is the one imported, whatever the later entries hold.
C7_LocalCopyFirst ==
    /\ (pc \notin {"imports", "path_insert"})
           => (Len(sys_path) >= 1 /\ sys_path[1] = ".")
    /\ (metadata # Unbound /\ fs["."] # NoModule)
           => (origin = "." /\ metadata = fs["."])
    /\ (metadata # Unbound) => (origin \in Dirs /\ metadata = fs[origin])

C7_Witness ==
    /\ metadata = LocalMeta
    /\ origin = "."
    /\ Len(sys_path) >= 2
    /\ sys_path[2] = "/site"
    /\ fs["/site"] = InstalledMeta

\* C8: setup() is invoked at most once, and no step changes the imported
\* metadata object or the copies on disk.
C8_OneShotReadOnly ==
    /\ [](Len(calls) <= 1)
    /\ [][(metadata # Unbound) => (metadata' = metadata)]_vars
    /\ [][fs' = fs]_vars

C8_Witness ==
    /\ pc = "done"
    /\ Len(calls) = 1
    /\ origin = "/site"
    /\ metadata = fs["/site"]

\* C9: setup() is invoked only after the import succeeded and all seven
\* attributes were loaded; a run ended by ImportError or AttributeError
\* never invoked it, and it is never invoked with a partial argument set.
C9_AllOrNothing ==
    /\ (exc \in {"ImportError", "AttributeError"}) => (calls = <<>>)
    /\ (Len(calls) > 0)
           => /\ AllFieldsPresent
              /\ Len(reads) = 7
              /\ \A i \in 1..Len(calls) :
                     DOMAIN calls[i] =
                         MetadataKeywords \cup {"packages", "scripts"}

C9_Witness ==
    /\ exc = "AttributeError"
    /\ Len(reads) = 4
    /\ DOMAIN args = {"name", "version", "description"}
    /\ calls = <<>>

=============================================================================
